---- MODULE Spec2Model ----
(***************************************************************************)
(* The asset-resolution protocol of bazel-remote (grpcServer.FetchBlob and  *)
(* grpcServer.fetchItem), the SHA-384 and SHA-512 hashers it resolves      *)
(* through the hashing registry, and the cache facade it reads and writes. *)
(*                                                                         *)
(* Strings that the code inspects character by character (hex digests,     *)
(* checksum.sri values, URIs) are sequences of one-character strings;      *)
(* byte slices are sequences of integers in 0..255.                        *)
(***************************************************************************)
EXTENDS Integers, Sequences, FiniteSets, TLC

(***************************************************************************)
(* Bounds of the model.                                                    *)
(***************************************************************************)
\* Qualifiers plus URIs in one FetchBlobRequest.
MaxCandidates == 3

\* The sizes handed to ValidateDigest are -1..MaxSize.
MaxSize == 1

\* Calls of TransformActionCacheKey in one behaviour.
MaxRemaps == 2

\* Concurrent FetchBlob calls.
NumCalls == 2

(***************************************************************************)
(* encoding/hex and encoding/base64 as FetchBlob and the hashers use them. *)
(***************************************************************************)
HexDigits == <<"0","1","2","3","4","5","6","7","8","9","a","b","c","d","e","f">>

\* hex.EncodeToString: two lowercase hex digits per byte, high nibble first.
EncodeToString(bytes) ==
  [i \in 1..(2 * Len(bytes)) |->
     IF i % 2 = 1 THEN HexDigits[(bytes[(i + 1) \div 2] \div 16) + 1]
     ELSE HexDigits[(bytes[i \div 2] % 16) + 1]]

\* The alphabet of base64.StdEncoding: position minus one is the 6-bit value.
encodeStd ==
  <<"A","B","C","D","E","F","G","H","I","J","K","L","M","N","O","P","Q","R","S","T","U","V",
    "W","X","Y","Z","a","b","c","d","e","f","g","h","i","j","k","l","m","n","o","p","q","r",
    "s","t","u","v","w","x","y","z","0","1","2","3","4","5","6","7","8","9","+","/">>

\* The 6-bit value of each character of the alphabet.
decodeMap ==
  [c \in {encodeStd[i] : i \in 1..Len(encodeStd)} |->
     (CHOOSE i \in 1..Len(encodeStd) : encodeStd[i] = c) - 1]

\* The data characters of the quantum (four characters) that starts at s[k]:
\* everything before its trailing "=".
DataLen(s, k) ==
  IF s[k + 3] /= "=" THEN 4
  ELSE IF s[k + 2] /= "=" THEN 3
  ELSE 2

\* The 24 bits of the quantum that starts at s[k].
QuantumBits(s, k) ==
  decodeMap[s[k]] * 262144 + decodeMap[s[k + 1]] * 4096
    + (IF DataLen(s, k) >= 3 THEN decodeMap[s[k + 2]] * 64 ELSE 0)
    + (IF DataLen(s, k) = 4 THEN decodeMap[s[k + 3]] ELSE 0)

\* Byte b (1, 2 or 3) of the quantum that starts at s[k].
QuantumByte(s, k, b) ==
  IF b = 1 THEN QuantumBits(s, k) \div 65536
  ELSE IF b = 2 THEN (QuantumBits(s, k) \div 256) % 256
  ELSE QuantumBits(s, k) % 256

\* A string decodes when it is made of whole quanta, every data character is
\* in the alphabet, and padding is only at the end of the last quantum.
DecodeOK(s) ==
  /\ Len(s) % 4 = 0
  /\ \A q \in 0..((Len(s) \div 4) - 1) :
       LET k == 4 * q + 1
       IN  /\ \A i \in k..(k + DataLen(s, k) - 1) : s[i] \in DOMAIN decodeMap
           /\ DataLen(s, k) < 4 => k + 3 = Len(s)

\* The number of bytes a decodable string decodes to.
DecodedLen(s) ==
  IF s = <<>> THEN 0
  ELSE 3 * (Len(s) \div 4) - (4 - DataLen(s, Len(s) - 3))

\* base64.StdEncoding.DecodeString: [err, bytes]; err is TRUE for a character
\* outside the alphabet, misplaced padding or a truncated quantum.
DecodeString(s) ==
  IF DecodeOK(s)
  THEN [err |-> FALSE,
        bytes |-> [i \in 1..DecodedLen(s) |->
                     QuantumByte(s, 4 * ((i - 1) \div 3) + 1, ((i - 1) % 3) + 1)]]
  ELSE [err |-> TRUE, bytes |-> <<>>]

(***************************************************************************)
(* The hashers (cache/hashing).  Sum384 and Sum512 are crypto/sha512 on    *)
(* the byte strings of the model, with their real digests.                 *)
(***************************************************************************)
Sum384(data) ==
  CASE data = <<>> ->
       <<56,176,96,167,81,172,150,56,76,217,50,126,177,177,227,106,33,253,183,17,20,190,7,67,76,12,
       199,191,99,246,225,218,39,78,222,191,231,111,101,251,213,26,210,241,72,152,185,91>>
    [] data = <<97>> ->
       <<84,165,155,159,34,176,184,8,128,216,66,126,84,139,124,35,171,216,115,72,110,31,3,93,206,
       156,214,151,232,81,117,3,60,170,136,230,213,123,195,94,250,224,181,175,211,20,95,49>>
    [] data = <<98>> ->
       <<152,169,6,24,44,220,251,30,180,235,71,17,118,0,246,137,88,226,221,209,64,36,139,71,152,79,
       75,222,101,135,184,156,130,21,195,218,137,90,51,110,148,173,26,202,57,1,92,64>>

Sum512(data) ==
  CASE data = <<>> ->
       <<207,131,225,53,126,239,184,189,241,84,40,80,214,109,128,7,214,32,228,5,11,87,21,220,131,
       244,169,33,211,108,233,206,71,208,209,60,93,133,242,176,255,131,24,210,135,126,236,47,99,
       185,49,189,71,65,122,129,165,56,50,122,249,39,218,62>>
    [] data = <<97>> ->
       <<31,64,252,146,218,36,22,148,117,9,121,238,108,245,130,242,213,215,210,142,24,51,93,224,90,
       188,84,208,86,14,15,83,2,134,12,101,43,240,141,86,2,82,170,94,116,33,5,70,243,105,251,187,
       206,140,18,207,199,149,123,38,82,254,154,117>>
    [] data = <<98>> ->
       <<82,103,118,136,34,238,98,77,72,252,225,94,197,202,121,203,214,2,203,127,76,33,87,165,22,
       85,105,145,242,46,248,199,181,239,123,24,209,255,65,197,147,112,239,176,133,134,81,212,74,
       147,108,17,183,177,68,196,143,224,77,243,198,163,232,218>>

sha384Hash(data) == EncodeToString(Sum384(data))

sha512Hash(data) == EncodeToString(Sum512(data))

sha384Empty ==
  <<"c","f","8","3","e","1","3","5","7","e","e","f","b","8","b","d","f","1","5","4","2","8",
    "5","0","d","6","6","d","8","0","0","7","d","6","2","0","e","4","0","5","0","b","5","7","1",
    "5","d","c","8","3","f","4","a","9","2","1","d","3","6","c","e","9","c","e","4","7","d","0",
    "d","1","3","c","5","d","8","5","f","2","b","0","f","f","8","3","1","8","d","2","8","7","7",
    "e","e","c","2","f","6","3","b","9","3","1","b","d","4","7","4","1","7","a","8","1","a","5",
    "3","8","3","2","7","a","f","9","2","7","d","a","3","e">>

sha512Empty ==
  <<"c","f","8","3","e","1","3","5","7","e","e","f","b","8","b","d","f","1","5","4","2","8",
    "5","0","d","6","6","d","8","0","0","7","d","6","2","0","e","4","0","5","0","b","5","7","1",
    "5","d","c","8","3","f","4","a","9","2","1","d","3","6","c","e","9","c","e","4","7","d","0",
    "d","1","3","c","5","d","8","5","f","2","b","0","f","f","8","3","1","8","d","2","8","7","7",
    "e","e","c","2","f","6","3","b","9","3","1","b","d","4","7","4","1","7","a","8","1","a","5",
    "3","8","3","2","7","a","f","9","2","7","d","a","3","e">>

sha384Size == 48

sha512Size == 64

\* The character class [a-f0-9].
HexDigitSet == {HexDigits[i] : i \in 1..16}

\* sha384Regex, ^[a-f0-9]{96}$
sha384RegexMatch(value) ==
  /\ Len(value) = 96
  /\ \A i \in 1..Len(value) : value[i] \in HexDigitSet

\* sha512Regex, ^[a-f0-9]{128}$
sha512RegexMatch(value) ==
  /\ Len(value) = 128
  /\ \A i \in 1..Len(value) : value[i] \in HexDigitSet

\* Validate returns an error (FALSE here) or nil (TRUE).
sha384Validate(value) ==
  IF sha384Size * 2 /= Len(value) THEN FALSE
  ELSE IF ~sha384RegexMatch(value) THEN FALSE
  ELSE TRUE

\* sha512Validate without the test of the characters.
sha512ValidateLength(value) == sha512Size * 2 = Len(value)

sha512Validate(value) ==
  IF sha512Size * 2 /= Len(value) THEN FALSE
  ELSE IF ~sha512RegexMatch(value) THEN FALSE
  ELSE TRUE

sha384ValidateDigest(hash, size) ==
  IF size = 0 THEN hash = sha384Empty ELSE sha384Validate(hash)

sha512ValidateDigest(hash, size) ==
  IF size = 0 THEN hash = sha512Empty ELSE sha512Validate(hash)

(***************************************************************************)
(* The hashing registry.  The hashers register themselves in init(); a     *)
(* hasher is identified here by its pb.DigestFunction_Value.               *)
(***************************************************************************)
UNKNOWN == "UNKNOWN"
SHA384 == "SHA384"
SHA512 == "SHA512"

\* The nil hashing.Hasher interface value.
NilHasher == "nil"

\* The registry once every init() has run.
registry == {SHA384, SHA512}

\* hashing.Get: the registered hasher, or no hasher and an error.
Get(fn) ==
  IF fn \in registry THEN [hasher |-> fn, err |-> FALSE]
  ELSE [hasher |-> NilHasher, err |-> TRUE]

\* hashing.DigestFunction: the enum id of a canonical name, the zero value
\* for a name no hasher carries.
DigestFunction(name) ==
  IF name = <<"s","h","a","3","8","4">> THEN SHA384
  ELSE IF name = <<"s","h","a","5","1","2">> THEN SHA512
  ELSE UNKNOWN

\* Method calls through the hashing.Hasher interface (never on NilHasher:
\* the callers below turn that into a panic).
Hash(hasher, data) ==
  IF hasher = SHA384 THEN sha384Hash(data) ELSE sha512Hash(data)

Validate(hasher, value) ==
  IF hasher = SHA384 THEN sha384Validate(value) ELSE sha512Validate(value)

ValidateDigest(hasher, value, size) ==
  IF hasher = SHA384 THEN sha384ValidateDigest(value, size)
  ELSE sha512ValidateDigest(value, size)

Empty(hasher) ==
  IF hasher = SHA384 THEN sha384Empty ELSE sha512Empty

Size(hasher) ==
  IF hasher = SHA384 THEN sha384Size ELSE sha512Size

(***************************************************************************)
(* strings.SplitN(s, "-", 2) and the part of url.Parse that fetchItem uses.*)
(***************************************************************************)
Index(s, c) ==
  IF \E i \in 1..Len(s) : s[i] = c
  THEN CHOOSE i \in 1..Len(s) : s[i] = c /\ \A j \in 1..(i - 1) : s[j] /= c
  ELSE 0

SplitN(s) ==
  LET i == Index(s, "-")
  IN  IF i = 0 THEN <<s>>
      ELSE <<SubSeq(s, 1, i - 1), SubSeq(s, i + 1, Len(s))>>

Letters == {"a","b","c","d","e","f","g","h","i","j","k","l","m","n","o","p","q","r","s","t",
            "u","v","w","x","y","z"}

\* url.Parse, reduced to the scheme: the letters before the first ":"; a ":"
\* in front ("missing protocol scheme") is an error; no scheme is "".
Parse(uri) ==
  LET i == Index(uri, ":")
  IN  IF i = 1 THEN [err |-> TRUE, Scheme |-> <<>>]
      ELSE IF i > 1 /\ \A j \in 1..(i - 1) : uri[j] \in Letters
      THEN [err |-> FALSE, Scheme |-> SubSeq(uri, 1, i - 1)]
      ELSE [err |-> FALSE, Scheme |-> <<>>]

(***************************************************************************)
(* Inputs: requests, the web, and the cache the server starts with.        *)
(***************************************************************************)
\* The bodies the web serves.
BodyA == <<97>>
BodyB == <<98>>
Bodies == {BodyA, BodyB}

\* req.Qualifiers holds pointers to Qualifier objects: NilQualifier is the
\* nil pointer, any other pointer p refers to QualifierHeap[p].
NilQualifier == 0

Qualifier(name, value) == [Name |-> name, Value |-> value]

\* sha512-<base64 of the SHA-512 digest of BodyA>
SriBodyA ==
  <<"s","h","a","5","1","2","-","H","0","D","8","k","t","o","k","F","p","R","1","C","X","n",
    "u","b","P","W","C","8","t","X","X","0","o","4","Y","M","1","3","g","W","r","x","U","0","F",
    "Y","O","D","1","M","C","h","g","x","l","K","/","C","N","V","g","J","S","q","l","5","0","I",
    "Q","V","G","8","2","n","7","u","8","6","M","E","s","/","H","l","X","s","m","U","v","6","a",
    "d","Q","=","=">>

\* The same digest under an algorithm name no hasher carries.
SriUnknownAlgo ==
  <<"m","d","4","-","H","0","D","8","k","t","o","k","F","p","R","1","C","X","n","u","b","P",
    "W","C","8","t","X","X","0","o","4","Y","M","1","3","g","W","r","x","U","0","F","Y","O","D",
    "1","M","C","h","g","x","l","K","/","C","N","V","g","J","S","q","l","5","0","I","Q","V","G",
    "8","2","n","7","u","8","6","M","E","s","/","H","l","X","s","m","U","v","6","a","d","Q","=",
    "=">>

QualifierHeap ==
  << Qualifier("checksum.sri", SriBodyA),
     Qualifier("checksum.sri", <<"s","h","a","5","1","2">>),
     Qualifier("checksum.sri", <<"s","h","a","5","1","2","-","!","!","!","!">>),
     Qualifier("checksum.sri", <<"s","h","a","5","1","2","-","q","v","8","=">>),
     Qualifier("checksum.sri", SriUnknownAlgo),
     Qualifier("vcs.branch", <<"m","a","i","n">>) >>

QualifierPointers == {NilQualifier} \cup (1..Len(QualifierHeap))

Uris ==
  { <<"h","t","t","p",":","/","/","h">>,
    <<"f","t","p",":","/","/","h">>,
    <<":","h">> }

RECURSIVE SeqsUpTo(_, _)
SeqsUpTo(S, n) ==
  IF n = 0 THEN {<<>>}
  ELSE LET shorter == SeqsUpTo(S, n - 1)
       IN  shorter \cup {Append(s, x) : s \in shorter, x \in S}

NilRequest == [isNil |-> TRUE, DigestFunction |-> UNKNOWN, Qualifiers |-> <<>>, Uris |-> <<>>]

\* The non-nil requests with nq qualifiers.
RequestsWith(nq) ==
  { [isNil |-> FALSE, DigestFunction |-> df, Qualifiers |-> qs, Uris |-> us] :
      df \in {UNKNOWN, SHA384},
      qs \in {q \in SeqsUpTo(QualifierPointers, nq) : Len(q) = nq},
      us \in SeqsUpTo(Uris, MaxCandidates - nq) }

Requests == {NilRequest} \cup UNION {RequestsWith(nq) : nq \in 0..MaxCandidates}

\* What http.Get(uri) can come back with: a transport error, or a response
\* with a status, a declared content length (-1: none declared) and a body
\* that reads completely or fails while being read.
HttpResponses ==
  { [err |-> TRUE, StatusCode |-> 0, ContentLength |-> -1, Body |-> <<>>, readErr |-> FALSE],
    [err |-> FALSE, StatusCode |-> 404, ContentLength |-> -1, Body |-> <<>>, readErr |-> FALSE],
    [err |-> FALSE, StatusCode |-> 200, ContentLength |-> -1, Body |-> BodyA, readErr |-> TRUE] }
  \cup
  UNION { { [err |-> FALSE, StatusCode |-> 200, ContentLength |-> cl, Body |-> b,
              readErr |-> FALSE] : cl \in {-1, Len(b)} } : b \in Bodies }

\* A CAS entry: the blob stored under (hasher, hash), and whether Contains
\* can tell its size (a proxy backend may report -1).
Entry(hasher, hash, data, sizeKnown) ==
  [hasher |-> hasher, hash |-> hash, data |-> data, sizeKnown |-> sizeKnown]

InitialCaches ==
  { {},
    {Entry(SHA512, sha512Hash(BodyA), BodyA, TRUE)},
    {Entry(SHA512, sha512Hash(BodyA), BodyA, FALSE)} }

(***************************************************************************)
(* The cache facade (cache.CAS entries only).                              *)
(***************************************************************************)
\* s.cache.Contains(ctx, cache.CAS, hasher, hash, -1): (found, size).
Contains(store, hasher, hash) ==
  IF \E e \in store : e.hasher = hasher /\ e.hash = hash
  THEN LET e == CHOOSE x \in store : x.hasher = hasher /\ x.hash = hash
       IN  [found |-> TRUE, size |-> IF e.sizeKnown THEN Len(e.data) ELSE -1]
  ELSE [found |-> FALSE, size |-> -1]

\* How s.cache.Get can end: with the blob's size, with an error, or without
\* an error and still without a size.
GetOutcomes == {"size", "error", "nosize"}

\* s.cache.Get(ctx, cache.CAS, hasher, hash, -1, 0) as FetchBlob reads it.
CacheGet(store, hasher, hash, outcome) ==
  LET e == CHOOSE x \in store : x.hasher = hasher /\ x.hash = hash
  IN  IF outcome = "size" THEN [err |-> FALSE, actualSize |-> Len(e.data)]
      ELSE IF outcome = "error" THEN [err |-> TRUE, actualSize |-> -1]
      ELSE [err |-> FALSE, actualSize |-> -1]

\* What s.cache.Put can return: nil, io.EOF or another error.
PutResults == {"nil", "EOF", "error"}

\* The store after Put returned `result`: nil stores the blob under the given
\* hash; io.EOF reports a racing identical write, which has stored it; an
\* error stores nothing.
Put(store, hasher, hash, data, result) ==
  IF result = "error" THEN store
  ELSE {e \in store : ~(e.hasher = hasher /\ e.hash = hash)}
         \cup {Entry(hasher, hash, data, TRUE)}

(***************************************************************************)
(* State.                                                                  *)
(***************************************************************************)
VARIABLES
  req,      \* the *asset.FetchBlobRequest of the call
  pc,       \* "parse", "run" (the two loops), "done" or "crashed" (a panic)
  hasher,   \* FetchBlob's local hasher
  hash,     \* FetchBlob's local hash
  qi,       \* index of the next qualifier of the first loop
  ui,       \* index of the next URI of the second loop
  resp,     \* what FetchBlob returned
  cas,      \* the CAS behind s.cache
  trace,    \* what the call has done: registry lookups, log lines, cache and HTTP calls
  d,        \* the hasher whose Validate or ValidateDigest is called
  value,    \* the string handed to it
  sizeArg,  \* the size handed to ValidateDigest
  verdict,  \* the method called last and whether it returned nil
  remaps,   \* the calls of TransformActionCacheKey made so far, with their results
  logger,   \* the lines written to the logger handed to TransformActionCacheKey
  calls,    \* the locals of each of the concurrent FetchBlob calls
  shared    \* the CAS the concurrent calls share

\* One FetchBlob call.
fetchVars == <<req, pc, hasher, hash, qi, ui, resp, cas, trace>>

\* Calls of a hasher's validation methods.
hashVars == <<d, value, sizeArg, verdict>>

\* Calls of TransformActionCacheKey.
keyVars == <<remaps, logger>>

\* Concurrent FetchBlob calls.
concVars == <<calls, shared>>

vars == <<fetchVars, hashVars, keyVars, concVars>>

\* The parts of the state a specification does not exercise stay as follows.
HashIdle == d = NilHasher /\ value = <<>> /\ sizeArg = 0 /\ verdict = <<>>

KeyIdle == remaps = <<>> /\ logger = <<>>

ConcIdle == calls = <<>> /\ shared = {}

NoResponse ==
  [returned |-> FALSE, err |-> "nil", status |-> "", DigestFunction |-> UNKNOWN,
   Hash |-> <<>>, SizeBytes |-> 0, Uri |-> <<>>, by |-> 0]

\* A returned response; `by` is the candidate (qualifiers first, then URIs)
\* whose examination produced it, 0 when none did.
Response(err, status, df, h, size, uri, by) ==
  [returned |-> TRUE, err |-> err, status |-> status, DigestFunction |-> df,
   Hash |-> h, SizeBytes |-> size, Uri |-> uri, by |-> by]

Event(op, cand) == [op |-> op, cand |-> cand]

Init ==
  /\ req \in Requests
  /\ cas \in InitialCaches
  /\ pc = "parse"
  /\ hasher = NilHasher
  /\ hash = <<>>
  /\ qi = 1
  /\ ui = 1
  /\ resp = NoResponse
  /\ trace = <<>>
  /\ HashIdle
  /\ KeyIdle
  /\ ConcIdle

\* No FetchBlob call is made.
FetchIdle ==
  /\ req = NilRequest
  /\ cas = {}
  /\ pc = "idle"
  /\ hasher = NilHasher
  /\ hash = <<>>
  /\ qi = 1
  /\ ui = 1
  /\ resp = NoResponse
  /\ trace = <<>>

(***************************************************************************)
(* grpcServer.fetchItem.                                                   *)
(***************************************************************************)
Http == <<"h","t","t","p">>
Https == <<"h","t","t","p","s">>

\* BadStatus refusing the server errors alone.
BadStatusServerErrors(code) == code >= 500

\* resp.StatusCode < 200 || resp.StatusCode >= 300
BadStatus(code) == code < 200 \/ code >= 300

\* expectedHash == "" || expectedSize < 0: the body is read into memory.
MustBuffer(expectedHash, expectedSize) == expectedHash = <<>> \/ expectedSize < 0

\* Mismatch without the test for an expected hash.
MismatchWithoutExpectation(expectedHash, hashStr) == hashStr /= expectedHash

\* expectedHash != "" && hashStr != expectedHash
Mismatch(expectedHash, hashStr) == expectedHash /= <<>> /\ hashStr /= expectedHash

\* PutFailed taking no result of Put for a failure.
PutFailedNever(result) == FALSE

\* err != nil && err != io.EOF
PutFailed(result) == result /= "nil" /\ result /= "EOF"

Failed(store, events) ==
  [result |-> "failed", hash |-> <<>>, size |-> -1, events |-> events, store |-> store]

Panicked(store, events) ==
  [result |-> "panic", hash |-> <<>>, size |-> -1, events |-> events, store |-> store]

\* The tail of fetchItem, from the Put on.  A nil hasher handed to Put is
\* dereferenced there unless Put fails first.
putItem(store, h, expectedHash, expectedSize, r, putResult, cand, events) ==
  LET call == [op |-> "put", cand |-> cand, hasher |-> h, hash |-> expectedHash,
               size |-> expectedSize, data |-> r.Body, result |-> putResult]
  IN  IF PutFailed(putResult)
      THEN Failed(store, events \o <<call, Event("log", cand)>>)
      ELSE IF h = NilHasher
      THEN Panicked(store, events \o <<call>>)
      ELSE [result |-> "ok", hash |-> expectedHash, size |-> expectedSize,
            events |-> events \o <<call>>,
            store |-> Put(store, h, expectedHash, r.Body, putResult)]

\* fetchItem(ctx, hasher, uri, expectedHash) over the store `store`, when
\* http.Get answers r and Put, if reached, returns putResult.
fetchItem(store, h, uri, expectedHash, r, putResult, cand) ==
  LET u == Parse(uri)
      got == [op |-> "httpGet", cand |-> cand, uri |-> uri, r |-> r]
  IN  IF u.err THEN Failed(store, <<Event("log", cand)>>)
      ELSE IF u.Scheme /= Http /\ u.Scheme /= Https
      THEN Failed(store, <<Event("log", cand)>>)
      ELSE IF r.err THEN Failed(store, <<got, Event("log", cand)>>)
      ELSE IF BadStatus(r.StatusCode)
      THEN Failed(store, <<got, Event("accessLog", cand)>>)
      ELSE LET events == <<got, Event("accessLog", cand)>>
           IN  IF MustBuffer(expectedHash, r.ContentLength)
               THEN IF r.readErr THEN Failed(store, events \o <<Event("log", cand)>>)
                    ELSE IF h = NilHasher THEN Panicked(store, events)
                    ELSE IF Mismatch(expectedHash, Hash(h, r.Body))
                    THEN Failed(store, events \o <<Event("log", cand)>>)
                    ELSE putItem(store, h, Hash(h, r.Body), Len(r.Body), r, putResult,
                                 cand, events)
               ELSE putItem(store, h, expectedHash, r.ContentLength, r,
                            IF r.readErr THEN "error" ELSE putResult, cand, events)

(***************************************************************************)
(* grpcServer.FetchBlob.                                                   *)
(***************************************************************************)
\* The nil-safe getters of the request.
GetDigestFunction(r) == IF r.isNil THEN UNKNOWN ELSE r.DigestFunction

GetQualifiers(r) == IF r.isNil THEN <<>> ELSE r.Qualifiers

GetUris(r) == IF r.isNil THEN <<>> ELSE r.Uris

\* The candidate number of URI i: the qualifiers come first.
UriCand(i) == Len(GetQualifiers(req)) + i

\* QualifierResponse built with the unknown size, -1.
QualifierResponseUnknownSize(df, h, size, cand) ==
  Response("nil", "OK", df, h, -1, <<>>, cand)

\* QualifierResponse without the DigestFunction field set.
QualifierResponseNoDigestFunction(df, h, size, cand) ==
  Response("nil", "OK", UNKNOWN, h, size, <<>>, cand)

\* The response of a qualifier that hit the cache.
QualifierResponse(df, h, size, cand) == Response("nil", "OK", df, h, size, <<>>, cand)

\* The response of a URI that fetchItem fetched and stored.
UriResponse(h, actualHash, size, uri, cand) ==
  Response("nil", "OK", h, actualHash, size, uri, cand)

Continue(h, hs, events) ==
  [next |-> "continue", hasher |-> h, hash |-> hs, resp |-> NoResponse, events |-> events]

Return(h, hs, response, events) ==
  [next |-> "return", hasher |-> h, hash |-> hs, resp |-> response, events |-> events]

\* One iteration of the loop over req.GetQualifiers(), for the pointer p, with
\* FetchBlob's locals h (hasher) and hs (hash), when s.cache.Get, if called,
\* ends as getOutcome: what the iteration does next and the locals it leaves.
tryQualifier(store, h, hs, p, getOutcome, cand) ==
  IF p = NilQualifier
  THEN Return(h, hs, Response("nil", "InvalidArgument", UNKNOWN, <<>>, 0, <<>>, cand), <<>>)
  ELSE IF QualifierHeap[p].Name /= "checksum.sri" THEN Continue(h, hs, <<>>)
  ELSE
    LET parts == SplitN(QualifierHeap[p].Value)
    IN  IF Len(parts) < 2
        THEN [next |-> "panic", hasher |-> h, hash |-> hs, resp |-> NoResponse,
              events |-> <<>>]
        ELSE
          LET df == DigestFunction(parts[1])
              decoded == DecodeString(parts[2])
              newHash == EncodeToString(decoded.bytes)
              got == Get(df)
              lookup == [op |-> "lookup", cand |-> cand, fn |-> df]
              log == Event("log", cand)
          IN  IF decoded.err THEN Continue(h, hs, <<log>>)
              ELSE IF got.err THEN Continue(got.hasher, newHash, <<lookup, log>>)
              ELSE IF ~Validate(got.hasher, newHash)
              THEN Continue(got.hasher, newHash, <<lookup, log>>)
              ELSE
                LET c == Contains(store, got.hasher, newHash)
                    asked == [op |-> "contains", cand |-> cand, hasher |-> got.hasher,
                              hash |-> newHash, found |-> c.found, size |-> c.size]
                IN  IF ~c.found THEN Continue(got.hasher, newHash, <<lookup, asked>>)
                    ELSE IF c.size < 0
                    THEN LET g == CacheGet(store, got.hasher, newHash, getOutcome)
                             read == [op |-> "get", cand |-> cand, hasher |-> got.hasher,
                                      hash |-> newHash, err |-> g.err,
                                      actualSize |-> g.actualSize]
                         IN  IF g.err \/ g.actualSize < 0
                             THEN Continue(got.hasher, newHash, <<lookup, asked, read, log>>)
                             ELSE Return(got.hasher, newHash,
                                         QualifierResponse(df, newHash, g.actualSize, cand),
                                         <<lookup, asked, read>>)
                    ELSE Return(got.hasher, newHash,
                                QualifierResponse(df, newHash, c.size, cand),
                                <<lookup, asked>>)

\* FetchBlob up to the first loop: the lookup of the request's digest
\* function, then the nil check.
ParseRequest ==
  /\ pc = "parse"
  /\ LET fn == GetDigestFunction(req)
         got == Get(fn)
         lookup == [op |-> "lookup", cand |-> 0, fn |-> fn]
     IN  /\ hasher' = got.hasher
         /\ trace' = IF got.err THEN <<lookup, Event("log", 0)>> ELSE <<lookup>>
  /\ IF req.isNil
     THEN /\ pc' = "done"
          /\ resp' = Response("InvalidArgument", "", UNKNOWN, <<>>, 0, <<>>, 0)
     ELSE /\ pc' = "run"
          /\ resp' = resp
  /\ UNCHANGED <<req, hash, qi, ui, cas, hashVars, keyVars, concVars>>

\* One iteration of the loop over the qualifiers.
TryQualifier ==
  /\ pc = "run"
  /\ qi <= Len(GetQualifiers(req))
  /\ \E step \in { tryQualifier(cas, hasher, hash, GetQualifiers(req)[qi], getOutcome, qi) :
                      getOutcome \in GetOutcomes } :
           /\ hasher' = step.hasher
           /\ hash' = step.hash
           /\ resp' = step.resp
           /\ trace' = trace \o step.events
           /\ pc' = IF step.next = "continue" THEN "run"
                    ELSE IF step.next = "return" THEN "done"
                    ELSE "crashed"
           /\ qi' = IF step.next = "continue" THEN qi + 1 ELSE qi
  /\ UNCHANGED <<req, ui, cas, hashVars, keyVars, concVars>>

\* TryURI without the return inside the loop: the response is built and the
\* loop goes on to the next URI.
TryURIKeepGoing ==
  /\ pc = "run"
  /\ qi > Len(GetQualifiers(req))
  /\ ui <= Len(GetUris(req))
  /\ \E item \in { fetchItem(cas, hasher, GetUris(req)[ui], hash, r, putResult, UriCand(ui)) :
                      r \in HttpResponses, putResult \in PutResults } :
       LET uri == GetUris(req)[ui]
       IN  /\ trace' = trace \o item.events
           /\ cas' = item.store
           /\ pc' = IF item.result = "panic" THEN "crashed" ELSE "run"
           /\ resp' = IF item.result = "ok"
                      THEN UriResponse(hasher, item.hash, item.size, uri, UriCand(ui))
                      ELSE resp
           /\ ui' = IF item.result = "panic" THEN ui ELSE ui + 1
  /\ UNCHANGED <<req, hasher, hash, qi, hashVars, keyVars, concVars>>

\* One iteration of the loop over the URIs: fetchItem, and the return when
\* it succeeded (hasher.DigestFunction() panics on a nil hasher).
TryURI ==
  /\ pc = "run"
  /\ qi > Len(GetQualifiers(req))
  /\ ui <= Len(GetUris(req))
  /\ \E item \in { fetchItem(cas, hasher, GetUris(req)[ui], hash, r, putResult, UriCand(ui)) :
                      r \in HttpResponses, putResult \in PutResults } :
       LET uri == GetUris(req)[ui]
       IN  /\ trace' = trace \o item.events
           /\ cas' = item.store
           /\ pc' = IF item.result = "ok" THEN "done"
                    ELSE IF item.result = "failed" THEN "run"
                    ELSE "crashed"
           /\ resp' = IF item.result = "ok"
                      THEN UriResponse(hasher, item.hash, item.size, uri, UriCand(ui))
                      ELSE resp
           /\ ui' = IF item.result = "failed" THEN ui + 1 ELSE ui
  /\ UNCHANGED <<req, hasher, hash, qi, hashVars, keyVars, concVars>>

\* Neither loop returned.
ReturnNotFound ==
  /\ pc = "run"
  /\ qi > Len(GetQualifiers(req))
  /\ ui > Len(GetUris(req))
  /\ pc' = "done"
  /\ resp' = Response("nil", "NotFound", UNKNOWN, <<>>, 0, <<>>, 0)
  /\ UNCHANGED <<req, hasher, hash, qi, ui, cas, trace, hashVars, keyVars, concVars>>

Next == ParseRequest \/ TryQualifier \/ TryURI \/ ReturnNotFound

Spec == Init /\ [][Next]_vars

(***************************************************************************)
(* Vocabulary of the properties.                                           *)
(***************************************************************************)
NumQualifiers == Len(GetQualifiers(req))

NumUris == Len(GetUris(req))

\* The candidate the loops are at.
CurrentCand == IF qi <= NumQualifiers THEN qi ELSE NumQualifiers + ui

Returned(status) == pc = "done" /\ resp.returned /\ resp.err = "nil" /\ resp.status = status

HasNilQualifier == \E j \in 1..NumQualifiers : req.Qualifiers[j] = NilQualifier

\* The events of the call of one kind.
EventsOf(op) == {i \in 1..Len(trace) : trace[i].op = op}

\* A GET that was answered 2xx with a body that could be read to its end.
Served(e) ==
  /\ e.op = "httpGet"
  /\ ~e.r.err
  /\ ~BadStatus(e.r.StatusCode)
  /\ ~e.r.readErr

\* The CAS holds blob `data` under (h, hs).
Holds(store, h, hs, data) ==
  \E e \in store : e.hasher = h /\ e.hash = hs /\ e.data = data

\* A checksum.sri qualifier that is not of the form <algorithm>-<base64 of a
\* digest of that algorithm>.
Malformed(p) ==
  /\ p /= NilQualifier
  /\ QualifierHeap[p].Name = "checksum.sri"
  /\ LET parts == SplitN(QualifierHeap[p].Value)
     IN  \/ Len(parts) < 2
         \/ DecodeString(parts[2]).err
         \/ Get(DigestFunction(parts[1])).err
         \/ ~Validate(DigestFunction(parts[1]), EncodeToString(DecodeString(parts[2]).bytes))

(***************************************************************************)
(* C1.  Mismatch rejection: when a checksum.sri qualifier left a           *)
(* well-formed expected digest and a hasher, a URI whose 2xx body hashes   *)
(* to another value is rejected, whether or not the response declares a    *)
(* content length: an OK response produced by a URI carries a body whose   *)
(* digest is the expected one.                                             *)
(***************************************************************************)
C1_MismatchRejected ==
  \A i \in EventsOf("put") :
    ( /\ Returned("OK")
      /\ resp.by = trace[i].cand
      /\ hash /= <<>>
      /\ hasher /= NilHasher
      /\ Validate(hasher, hash) )
    => Hash(hasher, trace[i].data) = hash

(***************************************************************************)
(* C2.  Cache-poisoning guard at the Put interface: every Put that         *)
(* FetchBlob issues with a hasher carries as hash the digest of the body   *)
(* it hands over.                                                          *)
(***************************************************************************)
C2_PutHashIsBodyHash ==
  \A i \in EventsOf("put") :
    trace[i].hasher /= NilHasher => trace[i].hash = Hash(trace[i].hasher, trace[i].data)

(***************************************************************************)
(* C3.  Qualifier cache hit: once Contains reports a qualifier's hash      *)
(* present with a known size, FetchBlob has returned OK with exactly that  *)
(* hash and size and the qualifier's digest function, and the call has     *)
(* made no HTTP GET and no Put.                                            *)
(***************************************************************************)
C3_QualifierCacheHit ==
  \A i \in EventsOf("contains") :
    (trace[i].found /\ trace[i].size >= 0) =>
      LET q == QualifierHeap[req.Qualifiers[trace[i].cand]]
      IN  /\ Returned("OK")
          /\ resp.by = trace[i].cand
          /\ resp.Hash = trace[i].hash
          /\ resp.Hash = EncodeToString(DecodeString(SplitN(q.Value)[2]).bytes)
          /\ resp.SizeBytes = trace[i].size
          /\ resp.DigestFunction = DigestFunction(SplitN(q.Value)[1])
          /\ resp.DigestFunction = trace[i].hasher
          /\ Holds(cas, resp.DigestFunction, resp.Hash, BodyA) => resp.SizeBytes = Len(BodyA)
          /\ EventsOf("httpGet") = {}
          /\ EventsOf("put") = {}

\* A hit on the second qualifier of a request whose own digest function is
\* another one than the qualifier's.
C3_Witness ==
  /\ Returned("OK")
  /\ resp.by = 2
  /\ req.DigestFunction = SHA384
  /\ NumUris > 0
  /\ \E i \in EventsOf("contains") : trace[i].found /\ trace[i].size >= 0

(***************************************************************************)
(* C4.  Fallback fetch.  In a call whose qualifiers supplied no expected   *)
(* hash, a URI answered 2xx with body B makes FetchBlob call               *)
(* Put(CAS, hasher, Hash(B), len(B), B) and, that Put having returned nil  *)
(* or io.EOF, return OK with digest {Hash(B), len(B)}, that URI and the    *)
(* hasher's id, after which the CAS holds B under Hash(B).                 *)
(***************************************************************************)
C4_FallbackFetchAlways ==
  \A i \in EventsOf("httpGet") :
    (Served(trace[i]) /\ hash = <<>>) =>
      /\ hasher /= NilHasher
      /\ pc /= "crashed"
      /\ LET B == trace[i].r.Body
             H == Hash(hasher, B)
         IN  \E j \in EventsOf("put") :
               /\ j > i
               /\ trace[j].cand = trace[i].cand
               /\ trace[j].hasher = hasher
               /\ trace[j].hash = H
               /\ trace[j].size = Len(B)
               /\ trace[j].data = B
               /\ ~PutFailed(trace[j].result) =>
                    /\ Returned("OK")
                    /\ resp.by = trace[i].cand
                    /\ resp.Hash = H
                    /\ resp.SizeBytes = Len(B)
                    /\ resp.Uri = trace[i].uri
                    /\ resp.DigestFunction = hasher
                    /\ Holds(cas, hasher, H, B)

C6_NilQualifierInvalidArgument ==
  ( /\ pc = "done"
    /\ ~req.isNil
    /\ HasNilQualifier
    /\ \A j \in 1..NumQualifiers :
         req.Qualifiers[j] = NilQualifier \/ ~Malformed(req.Qualifiers[j]) )
  => (Returned("InvalidArgument") /\ resp.Hash = <<>>)

(***************************************************************************)
(* C7.  Nil request: FetchBlob(nil) returns the transport error            *)
(* InvalidArgument and has done nothing else: no registry lookup, no log   *)
(* line, no cache access, no HTTP call.                                    *)
(***************************************************************************)
C7_NilRequestBeforeAnyWork ==
  (req.isNil /\ pc /= "parse") =>
    /\ pc = "done"
    /\ resp.returned
    /\ resp.err = "InvalidArgument"
    /\ trace = <<>>

(***************************************************************************)
(* C8.  Totality: a non-nil request without a nil qualifier never crashes  *)
(* the worker, and the response it ends with is OK or NotFound.            *)
(***************************************************************************)
C8_NeverCrashes ==
  (~req.isNil /\ ~HasNilQualifier) =>
    /\ pc /= "crashed"
    /\ pc = "done" => (Returned("OK") \/ Returned("NotFound"))

(***************************************************************************)
(* C9.  A malformed checksum.sri qualifier is skipped: its examination     *)
(* neither crashes the call nor produces the response.                     *)
(***************************************************************************)
C9_MalformedQualifierSkipped ==
  \A j \in 1..NumQualifiers :
    Malformed(req.Qualifiers[j]) =>
      /\ ~(pc = "crashed" /\ qi = j)
      /\ ~(resp.returned /\ resp.by = j)

(***************************************************************************)
(* C10.  Canonical empty digest: for every registered hasher, Empty() is   *)
(* the digest of zero-length content, has 2 * Size() characters and passes *)
(* Validate.                                                               *)
(***************************************************************************)
C10_EmptyIsHashOfNothing ==
  \A h \in registry :
    /\ Empty(h) = Hash(h, <<>>)
    /\ Len(Empty(h)) = 2 * Size(h)
    /\ Validate(h, Empty(h))

(***************************************************************************)
(* C15.  Unknown-size hit: a Contains hit with size -1 is followed by one  *)
(* Get for that hash; when that Get fails or yields a negative size the    *)
(* qualifier is skipped and the call goes on with the next candidate,      *)
(* otherwise the size it learned is the one returned.  Every OK response   *)
(* carries SizeBytes >= 0.                                                 *)
(***************************************************************************)
C15_UnknownSizeHit ==
  /\ \A i \in EventsOf("contains") :
       (trace[i].found /\ trace[i].size < 0) =>
         /\ i < Len(trace)
         /\ trace[i + 1].op = "get"
         /\ trace[i + 1].cand = trace[i].cand
         /\ trace[i + 1].hasher = trace[i].hasher
         /\ trace[i + 1].hash = trace[i].hash
         /\ \A j \in EventsOf("get") : trace[j].cand = trace[i].cand => j = i + 1
         /\ IF trace[i + 1].err \/ trace[i + 1].actualSize < 0
            THEN /\ ~(resp.returned /\ resp.by = trace[i].cand)
                 /\ CurrentCand > trace[i].cand
            ELSE /\ Returned("OK")
                 /\ resp.by = trace[i].cand
                 /\ resp.SizeBytes = trace[i + 1].actualSize
  /\ \A j \in EventsOf("get") :
       /\ j > 1
       /\ trace[j - 1].op = "contains"
       /\ trace[j - 1].found
       /\ trace[j - 1].size < 0
  /\ Returned("OK") => resp.SizeBytes >= 0

\* A hit of unknown size whose Get failed, after which a URI produced the
\* response.
C15_Witness ==
  /\ Returned("OK")
  /\ resp.by = NumQualifiers + 1
  /\ resp.SizeBytes = Len(BodyA)
  /\ \E j \in EventsOf("get") : trace[j].err /\ trace[j].cand = 1

\* A hit of unknown size whose Get told the size, which is returned.
C15_WitnessLearned ==
  /\ Returned("OK")
  /\ resp.by = 1
  /\ \E j \in EventsOf("get") : ~trace[j].err /\ trace[j].actualSize = resp.SizeBytes

(***************************************************************************)
(* C16.  Put failure handling: a URI attempt whose Put returned an error   *)
(* other than io.EOF has failed and the call has gone on to the next URI;  *)
(* one whose Put returned nil or io.EOF has made FetchBlob return OK for   *)
(* that URI.                                                               *)
(***************************************************************************)
C16_PutResultDecides ==
  \A i \in EventsOf("put") :
    IF PutFailed(trace[i].result)
    THEN /\ ~(resp.returned /\ resp.by = trace[i].cand)
         /\ pc /= "crashed"
         /\ CurrentCand > trace[i].cand
         /\ pc = "done" => (Returned("NotFound") \/ resp.by > trace[i].cand)
    ELSE /\ Returned("OK")
         /\ resp.by = trace[i].cand
         /\ resp.Uri = req.Uris[trace[i].cand - NumQualifiers]

(***************************************************************************)
(* C17.  Skipped URI attempts leave the cache untouched: the attempt at a  *)
(* URI that does not parse, has a scheme other than http and https, fails  *)
(* at transport level or is answered with a status outside [200,300)       *)
(* issues no Put (and no GET either for the first two), leaves the CAS as  *)
(* it was and is followed by the next URI.                                 *)
(***************************************************************************)
C17_SkippedUriLeavesCache ==
  [][ (pc = "run" /\ qi > NumQualifiers /\ ui <= NumUris) =>
        LET u == Parse(req.Uris[ui])
            done == SubSeq(trace', Len(trace) + 1, Len(trace'))
            ops == {done[i].op : i \in 1..Len(done)}
            unfit == u.err \/ u.Scheme \notin {Http, Https}
            refused == \E i \in 1..Len(done) :
                         /\ done[i].op = "httpGet"
                         /\ (done[i].r.err \/ done[i].r.StatusCode \notin 200..299)
        IN  /\ unfit => "httpGet" \notin ops
            /\ (unfit \/ refused) =>
                 /\ "put" \notin ops
                 /\ cas' = cas
                 /\ pc' = "run"
                 /\ ui' = ui + 1
                 /\ resp' = resp ]_vars

\* The first URI has an unsupported scheme and the second was answered 404;
\* the third then stored its body and produced the response.
C17_Witness ==
  /\ NumUris = 3
  /\ Parse(req.Uris[1]).Scheme \notin {Http, Https}
  /\ \E i \in EventsOf("httpGet") :
       trace[i].cand = NumQualifiers + 2 /\ trace[i].r.StatusCode = 404
  /\ \A i \in EventsOf("httpGet") : trace[i].cand > NumQualifiers + 1
  /\ \A i \in EventsOf("put") : trace[i].cand = NumQualifiers + 3
  /\ Returned("OK")
  /\ resp.by = NumQualifiers + 3

(***************************************************************************)
(* C18.  Skipped qualifiers do not leak into the URI stage: once the URI   *)
(* stage runs, the expected hash is empty or is the hash of a checksum.sri *)
(* qualifier that passed Validate under the hasher the fetches use; a      *)
(* request whose checksum.sri qualifiers are all malformed reaches the URI *)
(* stage with no expected hash and the hasher of its own digest function.  *)
(***************************************************************************)
C18_SkippedQualifiersDoNotLeak ==
  (pc /= "parse" /\ ~req.isNil /\ qi > NumQualifiers /\ NumUris > 0) =>
    /\ \/ hash = <<>>
       \/ \E j \in 1..NumQualifiers :
            LET p == req.Qualifiers[j]
            IN  /\ p /= NilQualifier
                /\ QualifierHeap[p].Name = "checksum.sri"
                /\ ~Malformed(p)
                /\ hasher = DigestFunction(SplitN(QualifierHeap[p].Value)[1])
                /\ hash = EncodeToString(DecodeString(SplitN(QualifierHeap[p].Value)[2]).bytes)
    /\ (\A j \in 1..NumQualifiers :
          QualifierHeap[req.Qualifiers[j]].Name = "checksum.sri" => Malformed(req.Qualifiers[j]))
       => (hash = <<>> /\ hasher = Get(req.DigestFunction).hasher)

C19_WitnessQualifier ==
  /\ Returned("OK")
  /\ resp.by = 1
  /\ NumQualifiers > 0

(***************************************************************************)
(* Calls of the hashers' methods on their own: a caller holds a hasher d   *)
(* and a string, which it may replace by a digest d computed, and calls    *)
(* Validate or ValidateDigest on it.                                       *)
(***************************************************************************)
\* The digests the hashers of the registry produce.
Digests ==
  {Hash(h, x) : h \in registry, x \in {<<>>} \cup Bodies} \cup {Empty(h) : h \in registry}

\* Characters outside [a-f0-9], and one inside.
EditChars == {"g", "A", "F", "-", "\n", "0"}

\* A digest, and what comes of it by cutting its last character, by adding
\* one, or by replacing its first, its second or its last character.
Edits(s) ==
  {s, SubSeq(s, 1, Len(s) - 1)}
    \cup {Append(s, c) : c \in EditChars}
    \cup {[s EXCEPT ![i] = c] : i \in {1, 2, Len(s)}, c \in EditChars}

Values == {<<>>} \cup UNION {Edits(s) : s \in Digests}

HashInit ==
  /\ d \in registry
  /\ value \in Values
  /\ sizeArg \in -1..MaxSize
  /\ verdict = <<>>
  /\ FetchIdle
  /\ KeyIdle
  /\ ConcIdle

\* value = d.Hash(x)
CallHash ==
  /\ \E x \in {<<>>} \cup Bodies : value' = Hash(d, x)
  /\ verdict' = <<>>
  /\ UNCHANGED <<d, sizeArg, fetchVars, keyVars, concVars>>

\* value = d.Empty()
CallEmpty ==
  /\ value' = Empty(d)
  /\ verdict' = <<>>
  /\ UNCHANGED <<d, sizeArg, fetchVars, keyVars, concVars>>

\* err := d.Validate(value)
CallValidate ==
  /\ verdict' = <<"Validate", Validate(d, value)>>
  /\ UNCHANGED <<d, value, sizeArg, fetchVars, keyVars, concVars>>

\* err := d.ValidateDigest(value, sizeArg)
CallValidateDigest ==
  /\ verdict' = <<"ValidateDigest", ValidateDigest(d, value, sizeArg)>>
  /\ UNCHANGED <<d, value, sizeArg, fetchVars, keyVars, concVars>>

HashNext == CallHash \/ CallEmpty \/ CallValidate \/ CallValidateDigest

HashSpec == HashInit /\ [][HashNext]_vars

\* The strings of 2 * Size() characters over a-f and 0-9.
LowerHex == {"0","1","2","3","4","5","6","7","8","9","a","b","c","d","e","f"}

WellFormed(h, v) == Len(v) = 2 * Size(h) /\ \A i \in 1..Len(v) : v[i] \in LowerHex

(***************************************************************************)
(* C11.  Digest validation: Validate returns nil exactly for the strings   *)
(* of 2 * Size() characters over [a-f0-9], hence for every digest the      *)
(* hasher computes; ValidateDigest with size 0 returns nil exactly for     *)
(* Empty(), and with any other size it returns what Validate returns.      *)
(***************************************************************************)
C11_DigestValidation ==
  /\ (verdict /= <<>> /\ verdict[1] = "Validate") =>
       /\ verdict[2] <=> WellFormed(d, value)
       /\ value \in {Hash(d, x) : x \in {<<>>} \cup Bodies} => verdict[2]
  /\ (verdict /= <<>> /\ verdict[1] = "ValidateDigest") =>
       IF sizeArg = 0
       THEN verdict[2] <=> value = Empty(d)
       ELSE /\ verdict[2] = Validate(d, value)
            /\ verdict[2] <=> WellFormed(d, value)

\* Validate refused a string of the right length for one character of it.
C11_Witness ==
  /\ verdict = <<"Validate", FALSE>>
  /\ Len(value) = 2 * Size(d)

\* ValidateDigest accepted a computed digest with a size other than 0.
C11_WitnessDigest ==
  /\ verdict = <<"ValidateDigest", TRUE>>
  /\ sizeArg /= 0
  /\ value = Hash(d, BodyA)

(***************************************************************************)
(* cache.TransformActionCacheKey.  Keys and instance names are strings     *)
(* over a, b and c; the keys, one and two characters long, stand for the   *)
(* hex digests of two digest functions.                                    *)
(***************************************************************************)
\* []byte(s) for the strings of the model.
ToBytes(s) ==
  [i \in 1..Len(s) |-> CASE s[i] = "a" -> 97 [] s[i] = "b" -> 98 [] s[i] = "c" -> 99]

\* crypto/sha256 on what h.Write(key); h.Write(instance) has fed it, with
\* its real digests.
Sum256(data) ==
  CASE data = <<97,98>> ->
       <<251,142,32,252,46,76,63,36,140,96,195,155,214,82,243,193,52,114,152,187,151,123,139,77,89,3,
       184,80,85,98,6,3>>
    [] data = <<97,99>> ->
       <<244,93,229,28,222,243,9,145,85,30,65,232,130,221,123,84,4,121,150,72,160,160,7,83,244,79,201,
       102,230,21,63,193>>
    [] data = <<98,98>> ->
       <<59,100,219,149,203,85,199,99,57,28,112,113,8,72,154,225,139,65,18,215,131,48,13,227,142,3,59,
       76,152,195,222,175>>
    [] data = <<98,99>> ->
       <<30,11,189,108,104,107,160,80,184,235,3,255,238,220,100,253,201,216,9,71,252,232,33,171,190,
       93,109,200,210,82,197,172>>
    [] data = <<97,98,98>> ->
       <<113,94,223,139,168,114,148,32,205,77,28,232,94,214,25,84,169,245,49,248,197,72,223,114,140,
       64,126,255,232,57,41,109>>
    [] data = <<97,98,99>> ->
       <<186,120,22,191,143,1,207,234,65,65,64,222,93,174,34,35,176,3,97,163,150,23,122,156,180,16,
       255,97,242,0,21,173>>
    [] data = <<98,98,99>> ->
       <<119,230,247,138,244,95,100,156,95,59,142,190,72,74,145,161,68,235,32,58,52,168,156,141,197,
       177,196,202,135,188,111,113>>
    [] data = <<97,98,98,99>> ->
       <<118,44,180,110,167,42,77,245,225,141,138,84,103,36,216,84,220,225,67,49,187,229,146,68,197,
       237,106,148,37,61,161,51>>

Keys == {<<"a">>, <<"a","b">>, <<"b">>}

Instances == {<<>>, <<"b">>, <<"c">>, <<"b","c">>}

\* TransformActionCacheKey hashing a fixed suffix in place of the instance name.
TransformActionCacheKeyNoInstance(key, instance) ==
  IF instance = <<>> THEN [newKey |-> key, lines |-> <<>>]
  ELSE LET newKey == EncodeToString(Sum256(ToBytes(key) \o ToBytes(<<"b">>)))
       IN  [newKey |-> newKey,
            lines |-> <<[key |-> key, instance |-> instance, newKey |-> newKey]>>]

\* TransformActionCacheKey(key, instance, logger): the key it returns and
\* the lines it writes to the logger.
TransformActionCacheKey(key, instance) ==
  IF instance = <<>> THEN [newKey |-> key, lines |-> <<>>]
  ELSE LET newKey == EncodeToString(Sum256(ToBytes(key) \o ToBytes(instance)))
       IN  [newKey |-> newKey,
            lines |-> <<[key |-> key, instance |-> instance, newKey |-> newKey]>>]

KeyInit ==
  /\ remaps = <<>>
  /\ logger = <<>>
  /\ FetchIdle
  /\ HashIdle
  /\ ConcIdle

\* newKey := TransformActionCacheKey(key, instance, logger)
CallTransform ==
  /\ Len(remaps) < MaxRemaps
  /\ \E key \in Keys, instance \in Instances :
       LET out == TransformActionCacheKey(key, instance)
       IN  /\ remaps' = Append(remaps, [key |-> key, instance |-> instance,
                                        newKey |-> out.newKey, logged |-> Len(out.lines)])
           /\ logger' = logger \o out.lines
  /\ UNCHANGED <<fetchVars, hashVars, concVars>>

KeyNext == CallTransform

KeySpec == KeyInit /\ [][KeyNext]_vars

\* hex(SHA256("ab"))
Sha256OfAB ==
  <<"f","b","8","e","2","0","f","c","2","e","4","c","3","f","2","4","8","c","6","0","c","3","9",
  "b","d","6","5","2","f","3","c","1","3","4","7","2","9","8","b","b","9","7","7","b","8","b",
  "4","d","5","9","0","3","b","8","5","0","5","5","6","2","0","6","0","3">>

(***************************************************************************)
(* C12.  TransformActionCacheKey returns the key unchanged for the empty   *)
(* instance name and hex(SHA256(key ++ instance)) for any other; for one   *)
(* key and two distinct non-empty instance names the results differ.       *)
(***************************************************************************)
C12_TransformKey ==
  /\ \A n \in 1..Len(remaps) :
       LET r == remaps[n]
       IN  /\ r.instance = <<>> => r.newKey = r.key
           /\ r.instance /= <<>> =>
                /\ r.newKey = EncodeToString(Sum256(ToBytes(r.key \o r.instance)))
                /\ Len(r.newKey) = 64
           /\ (r.key = <<"a">> /\ r.instance = <<"b">>) => r.newKey = Sha256OfAB
  /\ \A m, n \in 1..Len(remaps) :
       ( /\ remaps[m].key = remaps[n].key
         /\ remaps[m].instance /= <<>>
         /\ remaps[n].instance /= <<>>
         /\ remaps[m].instance /= remaps[n].instance )
       => remaps[m].newKey /= remaps[n].newKey

\* One key remapped for two distinct non-empty instance names.
C12_Witness ==
  /\ Len(remaps) = 2
  /\ remaps[1].key = remaps[2].key
  /\ remaps[1].instance = <<"b">>
  /\ remaps[2].instance = <<"b","c">>

(***************************************************************************)
(* C13.  No cross-instance collisions: two calls with distinct non-empty   *)
(* instance names, whatever their keys and the keys' lengths, return       *)
(* different keys.                                                         *)
(***************************************************************************)
C13_NoCrossInstanceCollision ==
  \A m, n \in 1..Len(remaps) :
    ( /\ remaps[m].instance /= <<>>
      /\ remaps[n].instance /= <<>>
      /\ remaps[m].instance /= remaps[n].instance )
    => remaps[m].newKey /= remaps[n].newKey

(***************************************************************************)
(* C20.  TransformActionCacheKey writes exactly one log line on every      *)
(* call, for empty and non-empty instance names alike.                     *)
(***************************************************************************)
C20_OneLogLinePerCall ==
  /\ Len(logger) = Len(remaps)
  /\ \A n \in 1..Len(remaps) : remaps[n].logged = 1

(***************************************************************************)
(* Concurrent FetchBlob calls on one grpcServer.  Each call has its own    *)
(* locals; the calls share s.cache alone, and FetchBlob takes no lock.  A  *)
(* call is interleaved with the others at its cache and HTTP calls: the    *)
(* examination of one qualifier (Contains, then Get for a hit of unknown   *)
(* size, whose result no Put in between changes), the GET of a URI, and    *)
(* the rest of fetchItem with its Put.  The calls fetch the same URI,      *)
(* which serves BodyA or refuses; Put is idempotent per hash: a racing     *)
(* identical write makes it return nil or io.EOF, never another error.     *)
(***************************************************************************)
CallIds == 1..NumCalls

TheUri == <<"h","t","t","p",":","/","/","h">>

\* Requests for BodyA under SHA-512: by the request's digest function, by a
\* checksum.sri qualifier, or both; one lists an unsupported URI first.
ConcRequests ==
  { [isNil |-> FALSE, DigestFunction |-> SHA512, Qualifiers |-> <<>>, Uris |-> <<TheUri>>],
    [isNil |-> FALSE, DigestFunction |-> UNKNOWN, Qualifiers |-> <<1>>, Uris |-> <<TheUri>>],
    [isNil |-> FALSE, DigestFunction |-> SHA512, Qualifiers |-> <<1>>,
     Uris |-> <<<<"f","t","p",":","/","/","h">>, TheUri>>] }

\* What the URI answers: 404, or BodyA with or without a content length.
ConcResponses ==
  {r \in HttpResponses : ~r.err /\ ~r.readErr /\ (r.StatusCode = 404 \/ r.Body = BodyA)}

\* Put under racing identical writes.
IdempotentPutResults == {"nil", "EOF"}

\* No response of http.Get at hand.
NoHttpResponse ==
  [err |-> TRUE, StatusCode |-> -1, ContentLength |-> -1, Body |-> <<>>, readErr |-> FALSE]

ConcInit ==
  /\ calls \in [CallIds -> { [req |-> r, pc |-> "parse", hasher |-> NilHasher, hash |-> <<>>,
                              qi |-> 1, ui |-> 1, resp |-> NoResponse,
                              inflight |-> NoHttpResponse] : r \in ConcRequests }]
  /\ shared \in InitialCaches
  /\ FetchIdle
  /\ HashIdle
  /\ KeyIdle

\* The URI call c is at can be fetched: it parses and is http or https.
Fetchable(c) ==
  LET u == Parse(calls[c].req.Uris[calls[c].ui])
  IN  ~u.err /\ u.Scheme \in {Http, Https}

AtUri(c) ==
  /\ calls[c].pc = "run"
  /\ calls[c].qi > Len(calls[c].req.Qualifiers)
  /\ calls[c].ui <= Len(calls[c].req.Uris)

\* FetchBlob up to the first loop.
CallParse(c) ==
  /\ calls[c].pc = "parse"
  /\ calls' = [calls EXCEPT ![c].hasher = Get(GetDigestFunction(calls[c].req)).hasher,
                            ![c].pc = "run"]
  /\ shared' = shared

\* One iteration of the loop over the qualifiers.
CallQualifier(c) ==
  /\ calls[c].pc = "run"
  /\ calls[c].qi <= Len(calls[c].req.Qualifiers)
  /\ \E step \in { tryQualifier(shared, calls[c].hasher, calls[c].hash,
                                calls[c].req.Qualifiers[calls[c].qi], getOutcome,
                                calls[c].qi) : getOutcome \in GetOutcomes } :
       calls' = [calls EXCEPT
                   ![c].hasher = step.hasher,
                   ![c].hash = step.hash,
                   ![c].resp = step.resp,
                   ![c].pc = IF step.next = "continue" THEN "run"
                             ELSE IF step.next = "return" THEN "done"
                             ELSE "crashed",
                   ![c].qi = IF step.next = "continue" THEN @ + 1 ELSE @]
  /\ shared' = shared

\* fetchItem on a URI it does not fetch.
CallSkipUri(c) ==
  /\ AtUri(c)
  /\ ~Fetchable(c)
  /\ calls' = [calls EXCEPT ![c].ui = @ + 1]
  /\ shared' = shared

\* fetchItem up to http.Get's answer.
CallHttpGet(c) ==
  /\ AtUri(c)
  /\ Fetchable(c)
  /\ \E r \in ConcResponses : calls' = [calls EXCEPT ![c].inflight = r, ![c].pc = "fetched"]
  /\ shared' = shared

\* The rest of fetchItem, with its Put on the shared CAS, and FetchBlob's
\* return when it succeeded.
CallPut(c) ==
  /\ calls[c].pc = "fetched"
  /\ LET uri == calls[c].req.Uris[calls[c].ui]
         cand == Len(calls[c].req.Qualifiers) + calls[c].ui
     IN  \E item \in { fetchItem(shared, calls[c].hasher, uri, calls[c].hash,
                                 calls[c].inflight, putResult, cand) :
                         putResult \in IdempotentPutResults } :
           /\ shared' = item.store
           /\ calls' = [calls EXCEPT
                          ![c].pc = IF item.result = "ok" THEN "done"
                                    ELSE IF item.result = "failed" THEN "run"
                                    ELSE "crashed",
                          ![c].resp = IF item.result = "ok"
                                      THEN UriResponse(calls[c].hasher, item.hash, item.size,
                                                       uri, cand)
                                      ELSE @,
                          ![c].ui = IF item.result = "failed" THEN @ + 1 ELSE @]

\* Neither loop returned.
CallNotFound(c) ==
  /\ calls[c].pc = "run"
  /\ calls[c].qi > Len(calls[c].req.Qualifiers)
  /\ calls[c].ui > Len(calls[c].req.Uris)
  /\ calls' = [calls EXCEPT ![c].pc = "done",
                            ![c].resp = Response("nil", "NotFound", UNKNOWN, <<>>, 0, <<>>, 0)]
  /\ shared' = shared

\* A step of call c.
CallStep(c) ==
  \/ CallParse(c)
  \/ CallQualifier(c)
  \/ CallSkipUri(c)
  \/ CallHttpGet(c)
  \/ CallPut(c)
  \/ CallNotFound(c)

ConcParse == (\E c \in CallIds : CallParse(c)) /\ UNCHANGED <<fetchVars, hashVars, keyVars>>

ConcQualifier ==
  (\E c \in CallIds : CallQualifier(c)) /\ UNCHANGED <<fetchVars, hashVars, keyVars>>

ConcSkipUri == (\E c \in CallIds : CallSkipUri(c)) /\ UNCHANGED <<fetchVars, hashVars, keyVars>>

ConcHttpGet == (\E c \in CallIds : CallHttpGet(c)) /\ UNCHANGED <<fetchVars, hashVars, keyVars>>

ConcPut == (\E c \in CallIds : CallPut(c)) /\ UNCHANGED <<fetchVars, hashVars, keyVars>>

ConcNotFound ==
  (\E c \in CallIds : CallNotFound(c)) /\ UNCHANGED <<fetchVars, hashVars, keyVars>>

ConcNext ==
  ConcParse \/ ConcQualifier \/ ConcSkipUri \/ ConcHttpGet \/ ConcPut \/ ConcNotFound

ConcSpec == ConcInit /\ [][ConcNext]_vars

\* The URI refused call c its content.
Refused(c) == calls[c].inflight /= NoHttpResponse /\ calls[c].inflight.StatusCode = 404

\* Call c has examined the qualifier of its request.
Examined(c) ==
  \/ calls[c].qi > 1
  \/ calls[c].pc = "done" /\ calls[c].resp.by = 1 /\ calls[c].req.Qualifiers /= <<>>

(***************************************************************************)
(* C14.  Concurrent resolution without locks: in every interleaving of     *)
(* the calls, no call crashes; the locals of a call are those its own      *)
(* request gives it, and the call returns OK with the digest               *)
(* {SHA-512 of BodyA, len(BodyA)} unless the URI refused it the content,   *)
(* and from the first OK on the CAS holds BodyA under that hash.           *)
(***************************************************************************)
C14_ConcurrentResolution ==
  \A c \in CallIds :
    LET call == calls[c]
    IN  /\ call.pc /= "crashed"
        /\ call.hash \in {<<>>, sha512Hash(BodyA)}
        /\ call.hash /= <<>> <=> Examined(c)
        /\ call.pc /= "parse" =>
             call.hasher = IF Examined(c) \/ call.req.DigestFunction = SHA512
                           THEN SHA512 ELSE NilHasher
        /\ call.pc = "done" =>
             IF Refused(c)
             THEN call.resp.status = "NotFound" /\ call.resp.err = "nil"
             ELSE /\ call.resp.status = "OK"
                  /\ call.resp.err = "nil"
                  /\ call.resp.DigestFunction = SHA512
                  /\ call.resp.Hash = sha512Hash(BodyA)
                  /\ call.resp.SizeBytes = Len(BodyA)
                  /\ Holds(shared, SHA512, sha512Hash(BodyA), BodyA)
        /\ \A other \in CallIds :
             (call.pc = "done" /\ calls[other].pc = "done"
                /\ call.resp.status = "OK" /\ calls[other].resp.status = "OK")
             => /\ call.resp.Hash = calls[other].resp.Hash
                /\ call.resp.SizeBytes = calls[other].resp.SizeBytes

\* Every call fetched the URI, stored the body and returned OK for the URI.
C14_Witness ==
  /\ \A c \in CallIds :
       /\ calls[c].pc = "done"
       /\ calls[c].resp.status = "OK"
       /\ calls[c].resp.Uri = TheUri
  /\ Holds(shared, SHA512, sha512Hash(BodyA), BodyA)

\* One call stored the body and the other then found it by its qualifier.
C14_WitnessHit ==
  /\ \E c \in CallIds : calls[c].pc = "done" /\ calls[c].resp.Uri = TheUri
  /\ \E c \in CallIds :
       /\ calls[c].pc = "done"
       /\ calls[c].resp.status = "OK"
       /\ calls[c].resp.Uri = <<>>
       /\ calls[c].inflight = NoHttpResponse

====
